---- MODULE Spec2Model ----
(***************************************************************************)
(* Daily report pipeline of nonebot_plugin_zxreport/data_source.py:        *)
(* the retrying HTTP client (AsyncHttpx.get), the five source adapters,    *)
(* the festival calculator, the per-date file cache and the assembler      *)
(* Report.get_report_image.                                                *)
(*                                                                         *)
(* Dates are day counts since 2016-01-01 (the base_date of                 *)
(* festival_calculation), so datetime.now().date() is the variable clock.  *)
(***************************************************************************)
EXTENDS Integers, Sequences, FiniteSets, TLC

\* ------------------------------------------------------------------ bounds
MaxReq == 2          \* number of get_report_image calls
MaxDay == 2          \* calendar days the clock runs through
ImgLen == 2          \* chunks of a rendered image
MaxItems == 12       \* longest item list a source returns
SmallCount == 5      \* a short item list a source returns
MaxN == 60           \* largest day count given to festival_calculation
NumPairs == 10       \* (threshold, label) pairs of the festival dataset

\* ------------------------------------------------------- program constants
MaxAttempts == 3     \* stop_after_attempt(3)
WaitFixed == 1       \* wait_fixed(1)
SixLimit == 11       \* data.data.news[:11]
ItLimit == 11        \* titles[:11]
AnimeLimit == 8      \* data_list[:8]
WindowLen == 14      \* range(0, 14, 2)
EpochWeekday == 4    \* datetime(2016, 1, 1).weekday(), a Friday

Reqs == 1..MaxReq
Days == 1..MaxDay

\* The exception types AsyncHttpx.get retries on and logs.
Transient == {"TimeoutException", "ConnectError", "HTTPStatusError"}
\* Every way one HTTP attempt can fail: the three above, or anything else
\* raised inside client.get (a read error, a protocol error, ...).
Failures == Transient \cup {"OtherError"}

retry_if_mut(e) == TRUE
\* tenacity.retry_if_exception_type((TimeoutException, ConnectError, HTTPStatusError))
retry_if_exception_type(e) == e \in Transient

except_clause_mut(e) == e \in {"TimeoutException", "ConnectError"}
\* except (TimeoutException, ConnectError, HTTPStatusError) as e: logger.error(...)
except_clause(e) == e \in Transient

stop_after_attempt_mut(k) == k >= MaxAttempts + 1
\* stop=stop_after_attempt(3)
stop_after_attempt(k) == k >= MaxAttempts

\* The adapters in the order the data dict awaits them.
Adapters == <<"hitokoto", "bili", "six", "anime", "it">>

\* Report.*_url
Url(a) ==
    CASE a = "hitokoto" -> "https://v1.hitokoto.cn/?c=a"
      [] a = "bili"     -> "https://s.search.bilibili.com/main/hotword"
      [] a = "six"      -> "https://60s.viki.moe/?v2=1"
      [] a = "anime"    -> "https://api.bgm.tv/calendar"
      [] a = "it"       -> "https://www.ithome.com/rss/"

\* datetime.weekday() of the day d days after 2016-01-01 (Monday = 0)
Weekday(d) == (EpochWeekday + d) % 7

\* s[:n]
Slice(s, n) == SubSeq(s, 1, IF n < Len(s) THEN n ELSE Len(s))

\* s[:n] if len(s) > n else s
Truncate(s, n) == IF Len(s) > n THEN Slice(s, n) ELSE s

Value(v) == [err |-> "none", val |-> v]
Raise(e) == [err |-> e, val |-> <<>>]

\* ------------------------------------------------------ festival dataset
\* config.favs_arr: alternating (threshold day count, label index) pairs
\* with increasing thresholds; config.favs_list: the labels.
favs_list == <<"f0", "f1", "f2", "f3">>
favs_arr ==
    [p \in 1..(2 * NumPairs) |->
        IF p % 2 = 1 THEN 5 * ((p + 1) \div 2)
                     ELSE ((p \div 2) - 1) % Len(favs_list)]

\* Python indexing a[i], 0-based, of a list held as a 1-based sequence.
InRange(a, i) == i >= 0 /\ i < Len(a)
At(a, i) == a[i + 1]

\* the generator of result.extend(...): one (offset, name) pair per j
WindowPairs(i, n) ==
    [k \in 1..(WindowLen \div 2) |->
        <<At(favs_arr, i + 2 * (k - 1)) - n,
          At(favs_list, At(favs_arr, i + 2 * (k - 1) + 1))>>]

\* every index the generator reads exists
WindowReadable(i) ==
    \A k \in 1..(WindowLen \div 2) :
        /\ InRange(favs_arr, i + 2 * (k - 1))
        /\ InRange(favs_arr, i + 2 * (k - 1) + 1)
        /\ InRange(favs_list, At(favs_arr, i + 2 * (k - 1) + 1))

RECURSIVE FestivalScan(_, _)
\* for i in range(0, len(favs_arr), 2): if favs_arr[i] >= n: ...; break
FestivalScan(i, n) ==
    IF i >= Len(favs_arr) THEN Value(<<>>)
    ELSE IF At(favs_arr, i) >= n
         THEN IF WindowReadable(i) THEN Value(WindowPairs(i, n))
                                   ELSE Raise("IndexError")
         ELSE FestivalScan(i + 2, n)

\* Report.festival_calculation, with n = (datetime.now() - base_date).days
festival_calculation(n) == FestivalScan(0, n)

\* ------------------------------------------------------- response bodies
\* a source list of L items; item k of source tag is <<tag, k>>
Items(tag, L) == [k \in 1..L |-> <<tag, k>>]

ItemCounts == {SmallCount, MaxItems}

HitokotoBodies ==
    {[valid |-> TRUE, hitokoto |-> "quote"], [valid |-> FALSE, hitokoto |-> ""]}

BiliBodies ==
    {[valid |-> TRUE, list |-> Items("keyword", L)] : L \in ItemCounts}
    \cup {[valid |-> FALSE, list |-> <<>>]}

SixBodies ==
    {[valid |-> TRUE, news |-> Items("news", L)] : L \in ItemCounts}
    \cup {[valid |-> FALSE, news |-> <<>>]}

\* an RSS item; the item at position Gap has no <title> element
RssItems(L, Gap) ==
    [k \in 1..L |-> [has_title |-> k # Gap, title |-> <<"title", k>>]]

ItBodies ==
    {[valid |-> TRUE, items |-> RssItems(L, g)] : L \in ItemCounts, g \in {0, 2}}
    \cup {[valid |-> FALSE, items |-> <<>>]}

\* the calendar entry of weekday w: every second item has an empty name_cn
AnimeItems(w, L) ==
    [k \in 1..L |->
        [name |-> <<"name", w, k>>,
         name_cn |-> IF k % 2 = 0 THEN <<>> ELSE <<"name_cn", w, k>>,
         image |-> <<"image", w, k>>]]

AnimeWeeks(W, L) == [w \in 1..W |-> AnimeItems(w - 1, L)]

AnimeBodies ==
    {[valid |-> TRUE, weeks |-> AnimeWeeks(W, L)] : W \in {0, 3, 7}, L \in ItemCounts}
    \cup {[valid |-> FALSE, weeks |-> <<>>]}

Bodies(a) ==
    CASE a = "hitokoto" -> HitokotoBodies
      [] a = "bili"     -> BiliBodies
      [] a = "six"      -> SixBodies
      [] a = "anime"    -> AnimeBodies
      [] a = "it"       -> ItBodies

\* ------------------------------------------------------------- adapters
\* Report.get_hitokoto after the response arrived
get_hitokoto(res) ==
    IF res.valid THEN Value(res.hitokoto) ELSE Raise("ValidationError")

\* Report.get_bili after the response arrived
get_bili(res) ==
    IF res.valid THEN Value(res.list) ELSE Raise("ValidationError")

get_six_mut(res) ==
    IF res.valid THEN Value(res.news) ELSE Raise("ValidationError")
\* Report.get_six after the response arrived
get_six(res) ==
    IF res.valid THEN Value(Truncate(res.news, SixLimit)) ELSE Raise("ValidationError")

RECURSIVE Titles(_)
\* for item in root.findall("./channel/item"): ... titles.append(...)
Titles(items) ==
    IF items = <<>> THEN <<>>
    ELSE IF Head(items).has_title THEN <<Head(items).title>> \o Titles(Tail(items))
         ELSE Titles(Tail(items))

\* Report.get_it after the response arrived
get_it(res) ==
    IF res.valid THEN Value(Truncate(Titles(res.items), ItLimit))
    ELSE Raise("ValidationError")

\* (data.name_cn or data.name, data.image) for data in anime.items
AnimeRows(items) ==
    [k \in 1..Len(items) |->
        <<IF items[k].name_cn # <<>> THEN items[k].name_cn ELSE items[k].name,
          items[k].image>>]

\* Report.get_anime after the response arrived, on weekday week
get_anime(res, week) ==
    IF ~res.valid THEN Raise("ValidationError")
    ELSE IF InRange(res.weeks, week)
         THEN Value(Truncate(AnimeRows(At(res.weeks, week)), AnimeLimit))
         ELSE IF Len(res.weeks) = 0 THEN Raise("IndexError")
              ELSE Value(Truncate(AnimeRows(res.weeks[Len(res.weeks)]), AnimeLimit))

\* what the adapter a returns for the response res parsed on day d
Parse(a, res, d) ==
    CASE a = "hitokoto" -> get_hitokoto(res)
      [] a = "bili"     -> get_bili(res)
      [] a = "six"      -> get_six(res)
      [] a = "anime"    -> get_anime(res, Weekday(d))
      [] a = "it"       -> get_it(res)

\* the item list of the source that the adapter a normalises (for the
\* anime source: the rows of the selected weekday)
Source(a, res, d) ==
    CASE a = "hitokoto" -> <<>>
      [] a = "bili"     -> res.list
      [] a = "six"      -> res.news
      [] a = "anime"    -> IF InRange(res.weeks, Weekday(d))
                           THEN AnimeRows(At(res.weeks, Weekday(d)))
                           ELSE AnimeRows(res.weeks[Len(res.weeks)])
      [] a = "it"       -> Titles(res.items)

\* ------------------------------------------------------------ the state
VARIABLES
    clock,      \* datetime.now().date(), as days since 2016-01-01
    files,      \* REPORT_PATH: for each date, whether <date>.png exists, and its bytes
    req,        \* the get_report_image calls: position, locals and bookkeeping
    last,       \* how the call that finished most recently ended
    fest_n,     \* the day count given to festival_calculation on its own
    fest_out    \* what it returned

vars == <<clock, files, req, last, fest_n, fest_out>>

NoFile == [exists |-> FALSE, bytes |-> <<>>]

NoData ==
    [data_festival |-> <<>>, data_hitokoto |-> "", data_bili |-> <<>>,
     data_six |-> <<>>, data_anime |-> <<>>, data_it |-> <<>>,
     week |-> 0, date |-> 0, zh_date |-> <<>>]

NoSrc == [bili |-> <<>>, six |-> <<>>, anime |-> <<>>, it |-> <<>>]

NoRes == [valid |-> FALSE]

\* no call has finished yet
NoCall == [pc |-> "none", now |-> 0, net |-> FALSE, result |-> <<>>]

\* a call that has not been made yet
Fresh ==
    [pc |-> "idle",
     \* locals of get_report_image and of the adapter and get call in progress
     now |-> 0, data |-> NoData, ad |-> 0, res |-> NoRes,
     image_bytes |-> <<>>, file_path |-> 0, woff |-> 0,
     \* the AsyncHttpx.get call in progress: outcome of each attempt so far,
     \* the logger.error records, the time slept between attempts
     outcomes |-> <<>>, log |-> <<>>, slept |-> 0,
     \* how the call ended
     err |-> "none", result |-> <<>>,
     \* bookkeeping of the call
     hit |-> FALSE, net |-> FALSE, checks |-> 0, fest |-> 0, renders |-> 0,
     writes |-> 0, returned |-> <<>>, src |-> NoSrc,
     \* how the call that had finished last when this one was made ended
     prev |-> NoCall]

\* the locals a finished call leaves nothing of
DropLocals(q) ==
    [q EXCEPT !.data = NoData, !.ad = 0, !.res = NoRes, !.image_bytes = <<>>,
              !.file_path = 0, !.woff = 0, !.outcomes = <<>>, !.log = <<>>,
              !.slept = 0, !.returned = <<>>, !.src = NoSrc]

\* what the caller of a finished call q has seen of it
Summary(q) == [pc |-> q.pc, now |-> q.now, net |-> q.net, result |-> q.result]

Finished(r) == req[r].pc \in {"done", "failed"}

\* the slot r takes the new call q; the callers of the finished calls have
\* their results and drop them
Begin(r, q) ==
    [s \in Reqs |-> IF s = r THEN q ELSE IF Finished(s) THEN Fresh ELSE req[s]]

Pending == [err |-> "pending", val |-> <<>>]

Init ==
    /\ clock = 1
    /\ files = [d \in Days |-> NoFile]
    /\ req = [r \in Reqs |-> Fresh]
    /\ last = NoCall
    /\ fest_n = 0
    /\ fest_out = Pending

\* REPORT_PATH / f"{date}.png"
ReportFile(d) == d

ReadFileMut(f) == Slice(f.bytes, Len(f.bytes) - 1)
\* image_file.read()
ReadFile(f) == f.bytes

\* the bytes template_to_pic returns to call r for a ReportData dated d
Image(r, d) == [k \in 1..ImgLen |-> <<"png", r, d, k>>]

Hole == <<"png", 0, 0, 0>>

WriteAtMut(bytes, off, chunk) == bytes
\* the file's bytes after chunk is written at offset off
WriteAt(bytes, off, chunk) ==
    [k \in 1..(IF off + 1 > Len(bytes) THEN off + 1 ELSE Len(bytes)) |->
        IF k = off + 1 THEN chunk
        ELSE IF k <= Len(bytes) THEN bytes[k] ELSE Hole]

\* data[key] = v for the key the adapter a fills
SetData(data, a, v) ==
    CASE a = "hitokoto" -> [data EXCEPT !.data_hitokoto = v]
      [] a = "bili"     -> [data EXCEPT !.data_bili = v]
      [] a = "six"      -> [data EXCEPT !.data_six = v]
      [] a = "anime"    -> [data EXCEPT !.data_anime = v]
      [] a = "it"       -> [data EXCEPT !.data_it = v]

SetSrc(src, a, v) ==
    CASE a = "hitokoto" -> src
      [] a = "bili"     -> [src EXCEPT !.bili = v]
      [] a = "six"      -> [src EXCEPT !.six = v]
      [] a = "anime"    -> [src EXCEPT !.anime = v]
      [] a = "it"       -> [src EXCEPT !.it = v]

\* no call is in progress
Quiet == \A q \in Reqs : req[q].pc \in {"idle", "done", "failed"}

\* the slot r is free for a new call
Free(r) == req[r].pc \in {"idle", "done", "failed"}

\* ---------------------------------------------------------- the actions
\* get_report_image, lines 75-79: the file of today exists
CacheHit(r) ==
    /\ Free(r)
    /\ files[ReportFile(clock)].exists
    /\ req' = Begin(r, [Fresh EXCEPT
                           !.pc = "done", !.now = clock, !.checks = @ + 1,
                           !.hit = TRUE, !.prev = last,
                           !.result = ReadFile(files[ReportFile(clock)])])
    /\ last' = Summary(req'[r])
    /\ UNCHANGED <<clock, files, fest_n, fest_out>>

\* get_report_image, lines 75-83: no file of today; the festival list is
\* computed and the first adapter's request is sent
CacheMiss(r) ==
    /\ Free(r)
    /\ ~files[ReportFile(clock)].exists
    /\ LET f == festival_calculation(clock) IN
         req' = Begin(r,
                   IF f.err # "none"
                   THEN [Fresh EXCEPT
                           !.pc = "raise", !.now = clock, !.checks = @ + 1,
                           !.fest = @ + 1, !.prev = last, !.err = f.err]
                   ELSE [Fresh EXCEPT
                           !.pc = "fetch", !.now = clock, !.checks = @ + 1,
                           !.fest = @ + 1, !.prev = last, !.ad = 1,
                           !.data = [NoData EXCEPT
                                       !.data_festival = f.val,
                                       !.week = Weekday(clock),
                                       !.date = clock,
                                       !.zh_date = <<"lunar", clock>>]])
    /\ UNCHANGED <<clock, files, last, fest_n, fest_out>>

Call(r) == CacheHit(r) \/ CacheMiss(r)

\* AsyncHttpx.get, lines 39-41: the attempt in flight succeeds and the
\* response body is handed to the adapter
AttemptOk(r, body) ==
    /\ req[r].pc = "fetch"
    /\ req' = [req EXCEPT ![r] =
                  [@ EXCEPT !.pc = "parse", !.res = body, !.net = TRUE,
                            !.outcomes = Append(@, "ok")]]
    /\ UNCHANGED <<clock, files, last, fest_n, fest_out>>

\* AsyncHttpx.get, lines 27-44: the attempt in flight raises e
AttemptFail(r, e) ==
    /\ req[r].pc = "fetch"
    /\ LET tried == Len(req[r].outcomes) + 1
           logged == IF except_clause(e)
                     THEN Append(req[r].log, <<Url(Adapters[req[r].ad]), e>>)
                     ELSE req[r].log
       IN req' = [req EXCEPT ![r] =
                    [@ EXCEPT !.net = TRUE, !.outcomes = Append(@, e),
                              !.log = logged,
                              !.pc = IF retry_if_exception_type(e)
                                        /\ ~stop_after_attempt(tried)
                                     THEN "wait" ELSE "raise",
                              !.err = IF ~retry_if_exception_type(e) THEN e
                                      ELSE IF stop_after_attempt(tried)
                                           THEN "RetryError" ELSE "none"]]
    /\ UNCHANGED <<clock, files, last, fest_n, fest_out>>

\* wait=wait_fixed(1): the sleep ends and the next attempt is sent
Sleep(r) ==
    /\ req[r].pc = "wait"
    /\ req' = [req EXCEPT ![r] = [@ EXCEPT !.pc = "fetch", !.slept = @ + WaitFixed]]
    /\ UNCHANGED <<clock, files, last, fest_n, fest_out>>

NextStageMut(k) == IF k >= Len(Adapters) - 1 THEN "render" ELSE "fetch"
\* after the adapter at position k returned: the next await of get_report_image
NextStage(k) == IF k >= Len(Adapters) THEN "render" ELSE "fetch"

\* the adapter parses the response and returns; get_report_image awaits the
\* next adapter, or template_to_pic after the last one
Adapter(r) ==
    /\ req[r].pc = "parse"
    /\ LET a == Adapters[req[r].ad]
           p == Parse(a, req[r].res, clock)
       IN req' = [req EXCEPT ![r] =
                    IF p.err # "none"
                    THEN [@ EXCEPT !.pc = "raise", !.err = p.err]
                    ELSE [@ EXCEPT !.pc = NextStage(req[r].ad),
                                   !.data = SetData(@, a, p.val),
                                   !.src = SetSrc(@, a, Source(a, req[r].res, clock)),
                                   !.returned = Append(@, a),
                                   !.ad = @ + 1, !.res = NoRes,
                                   !.outcomes = <<>>, !.log = <<>>, !.slept = 0]]
    /\ UNCHANGED <<clock, files, last, fest_n, fest_out>>

\* template_to_pic returns the image
RenderOk(r) ==
    /\ req[r].pc = "render"
    /\ req' = [req EXCEPT ![r] =
                  [@ EXCEPT !.pc = "save", !.renders = @ + 1,
                            !.image_bytes = Image(r, req[r].data.date)]]
    /\ UNCHANGED <<clock, files, last, fest_n, fest_out>>

\* template_to_pic raises
RenderFail(r) ==
    /\ req[r].pc = "render"
    /\ req' = [req EXCEPT ![r] =
                  [@ EXCEPT !.pc = "raise", !.renders = @ + 1, !.err = "RenderError"]]
    /\ UNCHANGED <<clock, files, last, fest_n, fest_out>>

\* save, lines 49-50: the worker thread names the file after today and
\* opens it "wb", which creates or empties it
SaveOpen(r) ==
    /\ req[r].pc = "save"
    /\ req' = [req EXCEPT ![r] =
                  [@ EXCEPT !.pc = "write", !.file_path = ReportFile(clock),
                            !.woff = 0, !.writes = @ + 1]]
    /\ files' = [files EXCEPT ![ReportFile(clock)] = [exists |-> TRUE, bytes |-> <<>>]]
    /\ UNCHANGED <<clock, last, fest_n, fest_out>>

\* save, line 51: the next chunk of data reaches the file
SaveWrite(r) ==
    /\ req[r].pc = "write"
    /\ req[r].woff < Len(req[r].image_bytes)
    /\ files' = [files EXCEPT ![req[r].file_path].bytes =
                    WriteAt(@, req[r].woff, req[r].image_bytes[req[r].woff + 1])]
    /\ req' = [req EXCEPT ![r] = [@ EXCEPT !.woff = @ + 1]]
    /\ UNCHANGED <<clock, last, fest_n, fest_out>>

\* lines 102-103: save is over and get_report_image returns image_bytes
Return(r) ==
    /\ req[r].pc = "write"
    /\ req[r].woff = Len(req[r].image_bytes)
    /\ req' = [req EXCEPT ![r] =
                  DropLocals([@ EXCEPT !.pc = "done", !.result = req[r].image_bytes])]
    /\ last' = Summary(req'[r])
    /\ UNCHANGED <<clock, files, fest_n, fest_out>>

\* the exception leaves get_report_image
Propagate(r) ==
    /\ req[r].pc = "raise"
    /\ req' = [req EXCEPT ![r] = DropLocals([@ EXCEPT !.pc = "failed"])]
    /\ last' = Summary(req'[r])
    /\ UNCHANGED <<clock, files, fest_n, fest_out>>

\* midnight
Tick ==
    /\ clock < MaxDay
    /\ clock' = clock + 1
    /\ UNCHANGED <<files, req, last, fest_n, fest_out>>

\* the bodies the endpoint of the adapter in progress may answer with
Responses(r) ==
    IF req[r].pc = "fetch" THEN Bodies(Adapters[req[r].ad]) ELSE {}

\* what a call in progress does next
Step(r) ==
    \/ Sleep(r)
    \/ Adapter(r)
    \/ RenderOk(r)
    \/ RenderFail(r)
    \/ SaveOpen(r)
    \/ SaveWrite(r)
    \/ Return(r)
    \/ Propagate(r)

\* the calls are made one after the other
Next ==
    \/ \E r \in Reqs : Quiet /\ Call(r)
    \/ \E r \in Reqs : \E body \in Responses(r) : AttemptOk(r, body)
    \/ \E r \in Reqs : \E e \in Failures : AttemptFail(r, e)
    \/ \E r \in Reqs : Step(r)
    \/ Tick

Spec == Init /\ [][Next]_vars

\* ------------------------------------------------- calls that overlap
\* one well-formed body per endpoint
RaceResponses(r) ==
    {b \in Responses(r) :
        /\ b.valid
        /\ req[r].ad = 2 => Len(b.list) = MaxItems
        /\ req[r].ad = 3 => Len(b.news) = MaxItems
        /\ req[r].ad = 4 => Len(b.weeks) = 7 /\ Len(b.weeks[1]) = MaxItems
        /\ req[r].ad = 5 => Len(b.items) = MaxItems /\ b.items[2].has_title}

\* one failure that is retried and one that is not
RaceFailures == {"TimeoutException", "OtherError"}

\* the host runs the calls as concurrent tasks: a call may be made while
\* others are in progress
NextRace ==
    \/ \E r \in Reqs : Call(r)
    \/ \E r \in Reqs : \E body \in RaceResponses(r) : AttemptOk(r, body)
    \/ \E r \in Reqs : \E e \in RaceFailures : AttemptFail(r, e)
    \/ \E r \in Reqs : Step(r)
    \/ Tick

SpecRace == Init /\ [][NextRace]_vars

\* ------------------------------------ festival_calculation on its own
FestDays == (-1)..MaxN

InitFest ==
    /\ clock = 1
    /\ files = [d \in Days |-> NoFile]
    /\ req = [r \in Reqs |-> Fresh]
    /\ last = NoCall
    /\ fest_n \in FestDays
    /\ fest_out = Pending

\* festival_calculation is called on a day with day count fest_n
Festival ==
    /\ fest_out = Pending
    /\ fest_out' = festival_calculation(fest_n)
    /\ UNCHANGED <<clock, files, req, last, fest_n>>

NextFest == Festival

SpecFest == InitFest /\ [][NextFest]_vars

\* ------------------------------------------------------------ properties
\* a get call of r is in progress or has just ended, its bookkeeping at hand
InGet(r) == req[r].pc \in {"fetch", "wait", "parse", "raise"} /\ req[r].ad >= 1

Last(s) == s[Len(s)]

\* the bytes of some finished render
Complete(bytes) == \E q \in Reqs, d \in Days : bytes = Image(q, d)

\* the attempts of the get call in progress that have been sent
Sent(r) == Len(req[r].outcomes) + (IF req[r].pc = "fetch" THEN 1 ELSE 0)

\* C1 as stated: of two calls made one after the other on the same date, at
\* most one performs network I/O, and the second returns the bytes the
\* first returned.
C1_Original ==
    \A b \in Reqs :
        (Finished(b) /\ req[b].prev.pc # "none" /\ req[b].prev.now = req[b].now)
        => /\ ~(req[b].prev.net /\ req[b].net)
           /\ req[b].pc = "done" => req[b].result = req[b].prev.result

\* C1 amended: of two calls made one after the other on the same date, if
\* the first returns bytes, then the second performs no network I/O and
\* returns the same bytes.
C1_Idempotent ==
    \A b \in Reqs :
        (Finished(b) /\ req[b].prev.pc = "done" /\ req[b].prev.now = req[b].now)
        => /\ req[b].pc = "done"
           /\ ~req[b].net
           /\ req[b].result = req[b].prev.result

C1_Witness ==
    \E b \in Reqs :
        /\ req[b].pc = "done" /\ req[b].hit
        /\ req[b].prev.pc = "done" /\ req[b].prev.net
        /\ req[b].prev.now = req[b].now
        /\ Complete(req[b].result)

\* C2: a get call makes at most 3 attempts, every attempt but the last
\* ended in a transient failure, the response handed to the adapter is that
\* of the first attempt that succeeded, and the call fails with the fetch
\* failure (tenacity's RetryError) only after 3 transient failures.
C2_BoundedRetry ==
    \A r \in Reqs :
        InGet(r) =>
            /\ Sent(r) <= 3
            /\ \A k \in 1..(Sent(r) - 1) : req[r].outcomes[k] \in Transient
            /\ req[r].pc = "parse" => Last(req[r].outcomes) = "ok"
            /\ req[r].err = "RetryError" =>
                   /\ Len(req[r].outcomes) = 3
                   /\ \A k \in 1..3 : req[r].outcomes[k] \in Transient

C2_Witness ==
    \E r \in Reqs :
        /\ req[r].pc = "raise" /\ req[r].err = "RetryError"
        /\ Len(req[r].outcomes) = 3

\* C3: a failure that is not transient is not retried: after an attempt
\* that raised something else, or a response the adapter could not parse,
\* no further attempt is sent, the error propagates at once, and it is not
\* the fetch failure of exhausted retries.
C3_NoRetry ==
    \A r \in Reqs :
        (InGet(r) /\ req[r].outcomes # <<>>) =>
            /\ \A k \in 1..Len(req[r].outcomes) :
                   req[r].outcomes[k] \notin Transient => k = Sent(r)
            /\ Last(req[r].outcomes) \notin (Transient \cup {"ok"}) =>
                   /\ req[r].pc = "raise"
                   /\ req[r].err = Last(req[r].outcomes)
                   /\ req[r].err # "RetryError"
            /\ (req[r].pc = "raise" /\ Last(req[r].outcomes) = "ok") =>
                   req[r].err \in {"ValidationError", "IndexError"}

C3_Witness ==
    \E r \in Reqs :
        /\ req[r].pc = "raise" /\ req[r].err = "OtherError"
        /\ Len(req[r].outcomes) = 2

\* C4: on a cache miss the renderer is invoked only after the five adapters
\* returned, in order and one at a time; the file is written only after the
\* renderer returned bytes; a call in which an adapter or the render failed
\* fails, does not render after the failure and writes no file.
C4_Pipeline ==
    \A r \in Reqs :
        /\ req[r].pc \in {"fetch", "wait", "parse"} =>
               /\ req[r].returned = SubSeq(Adapters, 1, req[r].ad - 1)
               /\ req[r].renders = 0 /\ req[r].writes = 0
        /\ req[r].pc \in {"render", "save", "write"} =>
               /\ req[r].returned = Adapters
               /\ req[r].err = "none"
        /\ req[r].renders > 0 =>
               /\ req[r].renders = 1
               /\ req[r].pc \in {"save", "write", "raise", "done", "failed"}
        /\ req[r].writes > 0 =>
               /\ req[r].writes = 1 /\ req[r].renders = 1
               /\ req[r].pc \in {"write", "done"}
               /\ req[r].pc = "write" =>
                      req[r].image_bytes = Image(r, req[r].data.date)
        /\ req[r].err # "none" =>
               /\ req[r].pc \in {"raise", "failed"}
               /\ req[r].writes = 0
               /\ req[r].result = <<>>
               /\ req[r].renders = (IF req[r].err = "RenderError" THEN 1 ELSE 0)

C4_Witness ==
    \E r \in Reqs :
        /\ req[r].pc = "raise" /\ req[r].err = "RetryError"
        /\ Len(req[r].returned) = 4
        /\ req[r].renders = 0 /\ req[r].writes = 0

\* C5: a call checks the cache once, before any fetch; when today's file
\* exists it returns the stored bytes and makes no HTTP attempt, no festival
\* calculation, no render and no write.
C5_CacheHit ==
    \A r \in Reqs :
        /\ req[r].checks = (IF req[r].pc = "idle" THEN 0 ELSE 1)
        /\ req[r].net => req[r].checks = 1
        /\ req[r].hit =>
               /\ req[r].pc = "done"
               /\ req[r].result = files[ReportFile(req[r].now)].bytes
               /\ ~req[r].net
               /\ req[r].fest = 0 /\ req[r].renders = 0 /\ req[r].writes = 0

C5_Witness ==
    \E r \in Reqs : req[r].hit /\ Complete(req[r].result)

\* C6 as stated: when calls for the same missing date overlap, every call
\* that returns does so with the complete bytes of some finished render,
\* and the files left once all calls are over are complete.
C6_Claim ==
    /\ \A r \in Reqs : req[r].pc = "done" => Complete(req[r].result)
    /\ Quiet =>
           \A d \in Days : files[d].exists => Complete(files[d].bytes)

\* C7 as stated: every failed attempt of a get call is logged once, and a
\* one-unit delay occurs only between a failed attempt and the next one.
C7_Original ==
    \A r \in Reqs :
        (InGet(r) /\ Sent(r) >= 1) =>
            /\ Len(req[r].log) =
                   Cardinality({k \in 1..Len(req[r].outcomes) :
                                   req[r].outcomes[k] # "ok"})
            /\ req[r].slept = Sent(r) - 1

\* C7 amended: every attempt that ended in a transient failure is logged
\* once, with the URL and the cause, before the next attempt or the
\* propagation; an attempt that failed otherwise is not logged; a one-unit
\* delay occurs only between a failed attempt and the next one, so at most
\* 2 per call.
C7_LogAndDelay ==
    \A r \in Reqs :
        (InGet(r) /\ Sent(r) >= 1) =>
            /\ Len(req[r].log) =
                   Cardinality({k \in 1..Len(req[r].outcomes) :
                                   req[r].outcomes[k] \in Transient})
            /\ \A k \in 1..Len(req[r].log) :
                   req[r].log[k] = <<Url(Adapters[req[r].ad]), req[r].outcomes[k]>>
            /\ req[r].slept = Sent(r) - 1
            /\ req[r].slept <= 2

C7_Witness ==
    \E r \in Reqs :
        /\ req[r].pc = "parse"
        /\ req[r].outcomes = <<"TimeoutException", "TimeoutException", "ok">>
        /\ Len(req[r].log) = 2
        /\ req[r].slept = 2

\* the even positions of the dataset whose threshold is >= n
EvenHits(n) ==
    {i \in 0..(Len(favs_arr) - 1) : i % 2 = 0 /\ At(favs_arr, i) >= n}

FirstHit(n) == CHOOSE i \in EvenHits(n) : \A j \in EvenHits(n) : i <= j

\* C8 as stated: festival_calculation never fails; it returns the empty
\* list exactly when no even position has a threshold >= n, and otherwise
\* the 7 (threshold - n, name) pairs of the window at the first such
\* position.
C8_Claim ==
    fest_out # Pending =>
        /\ fest_out.err = "none"
        /\ (fest_out.val = <<>>) <=> (EvenHits(fest_n) = {})
        /\ EvenHits(fest_n) # {} =>
               /\ Len(fest_out.val) = 7
               /\ \A k \in 1..7 :
                      fest_out.val[k] =
                          <<At(favs_arr, FirstHit(fest_n) + 2 * (k - 1)) - fest_n,
                            At(favs_list,
                               At(favs_arr, FirstHit(fest_n) + 2 * (k - 1) + 1))>>

\* out is the first n items of src, or all of src when it has fewer
FirstN(out, src, n) ==
    out = SubSeq(src, 1, IF Len(src) < n THEN Len(src) ELSE n)

\* the ReportData of r is complete: it goes to the renderer
Handed(r) == req[r].pc \in {"render", "save", "write"}

\* C9 as stated: in the ReportData handed to the renderer the trending list
\* and the news lists are the first 11 items of their source and the anime
\* list the first 8.
C9_Original ==
    \A r \in Reqs :
        Handed(r) =>
            /\ FirstN(req[r].data.data_bili, req[r].src.bili, 11)
            /\ FirstN(req[r].data.data_six, req[r].src.six, 11)
            /\ FirstN(req[r].data.data_it, req[r].src.it, 11)
            /\ FirstN(req[r].data.data_anime, req[r].src.anime, 8)

\* C9 amended: in the ReportData handed to the renderer the two news lists
\* are the first 11 items of their source and the anime list the first 8;
\* the trending list is the whole source list, whatever its length.
C9_Truncation ==
    \A r \in Reqs :
        Handed(r) =>
            /\ req[r].data.data_bili = req[r].src.bili
            /\ FirstN(req[r].data.data_six, req[r].src.six, 11)
            /\ FirstN(req[r].data.data_it, req[r].src.it, 11)
            /\ FirstN(req[r].data.data_anime, req[r].src.anime, 8)

C9_Witness ==
    \E r \in Reqs :
        /\ Handed(r)
        /\ Len(req[r].src.six) > 11 /\ Len(req[r].data.data_six) = 11
        /\ Len(req[r].src.anime) > 8 /\ Len(req[r].data.data_anime) = 8
        /\ Len(req[r].src.bili) > 11 /\ Len(req[r].data.data_bili) > 11

\* C10 as stated: the file a call writes is the one of the date it checked
\* the cache for and put into its ReportData, so a complete file of date d
\* was rendered from a ReportData dated d.
C10_Claim ==
    /\ \A r \in Reqs :
           req[r].pc = "write" =>
               /\ req[r].file_path = ReportFile(req[r].now)
               /\ req[r].file_path = ReportFile(req[r].data.date)
    /\ \A d \in Days, q \in Reqs, dd \in Days :
           (files[d].exists /\ files[d].bytes = Image(q, dd)) => dd = d

====
